---- MODULE Spec2Model ----
(***************************************************************************)
(* Model of the cpuidle driver registry, drivers/cpuidle/driver.c, in the  *)
(* CONFIG_CPU_IDLE_MULTIPLE_DRIVERS build: one slot per cpu, a spinlock    *)
(* around register / unregister / ref / unref, the broadcast timer that    *)
(* register arms and unregister disarms.                                   *)
(*                                                                         *)
(* Threads run the exported functions step by step.  A step is a piece of  *)
(* a function between two points at which another cpu can observe the      *)
(* shared state: a slot write of the scan loop, the broadcast notification,*)
(* the release of the spinlock.  The last step of every function releases  *)
(* the spinlock and returns; until then loc[t] keeps the result and the    *)
(* registry as it was when the function took the lock.                     *)
(*                                                                         *)
(* Callers are not assumed to behave: they register a driver twice,        *)
(* unregister one that is not registered, and give a reference back on     *)
(* another cpu than the one they took it on (cpuidle_driver_ref and        *)
(* cpuidle_driver_unref work on the cpu the caller happens to run on).     *)
(***************************************************************************)
EXTENDS Integers, FiniteSets, Sequences, TLC

(* ------------------------------ bounds --------------------------------- *)

\* number of possible cpus (nr_cpu_ids)
NumCpus == 3

\* cap on a driver's refcnt and on the references outstanding at one time
MaxRef == 1

\* number of threads calling into the registry
NumThreads == 2

(* ----------------------------- constants ------------------------------- *)

NULL == "NULL"

\* a struct cpumask pointer that is NULL (masks are sets of cpus)
NULL_cpumask == {-1}

CPUs == 0 .. (NumCpus - 1)

nr_cpu_ids == NumCpus

cpu_possible_mask == CPUs

Threads == 1 .. NumThreads

NoThread == 0

\* idle states a producer supplies: one that stops the local timer, one that
\* does not
STATE_TIMER_STOP ==
    [name |-> "C2", flags |-> {"CPUIDLE_FLAG_TIME_VALID", "CPUIDLE_FLAG_TIMER_STOP"},
     exit_latency |-> 1, target_residency |-> 1, power_usage |-> 1,
     enter |-> "enter_c2", disabled |-> FALSE]

STATE_TIME_VALID ==
    [name |-> "WFI", flags |-> {"CPUIDLE_FLAG_TIME_VALID"},
     exit_latency |-> 1, target_residency |-> 1, power_usage |-> 1,
     enter |-> "enter_wfi", disabled |-> TRUE]

\* states[0] as a producer leaves it for poll_idle_init to fill: zeroed
STATE_RESERVED ==
    [name |-> "", flags |-> {}, exit_latency |-> 0, target_residency |-> 0,
     power_usage |-> 0, enter |-> NULL, disabled |-> FALSE]

\* the state poll_idle_init writes
STATE_POLL ==
    [name |-> "POLL", flags |-> {"CPUIDLE_FLAG_TIME_VALID"},
     exit_latency |-> 0, target_residency |-> 0, power_usage |-> -1,
     enter |-> "poll_idle", disabled |-> FALSE]

\* the drivers the producers build (struct cpuidle_driver, as handed to
\* cpuidle_register_driver): A and B have overlapping masks, C gives no mask,
\* D is disjoint from A, E has no idle state
Drivers == {"A", "B", "C", "D", "E"}

ProducerDriver(d) ==
    CASE d = "A" -> [cpumask |-> {0, 1}, states |-> <<STATE_TIMER_STOP>>,
                     state_count |-> 1, refcnt |-> 0, bctimer |-> FALSE]
      [] d = "B" -> [cpumask |-> {1, 2}, states |-> <<STATE_TIME_VALID>>,
                     state_count |-> 1, refcnt |-> 0, bctimer |-> FALSE]
      [] d = "C" -> [cpumask |-> NULL_cpumask,
                     states |-> <<STATE_TIME_VALID, STATE_TIMER_STOP>>,
                     state_count |-> 2, refcnt |-> 0, bctimer |-> FALSE]
      [] d = "D" -> [cpumask |-> {2},
                     states |-> <<STATE_TIME_VALID, STATE_TIMER_STOP>>,
                     state_count |-> 2, refcnt |-> 0, bctimer |-> FALSE]
      [] OTHER   -> [cpumask |-> {0}, states |-> <<>>,
                     state_count |-> 0, refcnt |-> 0, bctimer |-> FALSE]

\* the drivers as built for CONFIG_ARCH_HAS_CPU_RELAX: A, C and D keep
\* states[0] free for the polling state and fill their states from index 1,
\* B fills states[0] itself, E has no state
RelaxDriver(d) ==
    IF d \in {"A", "C", "D"}
    THEN [ProducerDriver(d) EXCEPT !.states = <<STATE_RESERVED>> \o @,
                                  !.state_count = @ + 1]
    ELSE ProducerDriver(d)

(* ------------------------------- state --------------------------------- *)

VARIABLES
    cpuidle_drivers,       \* per-cpu slot: the driver of each cpu, or NULL
    drvs,                  \* the struct cpuidle_driver objects, by name
    bc_timer,              \* per cpu: broadcast timer armed
    off,                   \* cpuidle_disabled()
    cpuidle_driver_lock,   \* the thread holding the spinlock, or NoThread
    pc,                    \* per thread: where it is in the function it runs
    loc,                   \* per thread: the function's arguments and locals
    held,                  \* references handed out by cpuidle_driver_ref and
                           \* not yet given back, by driver and cpu
    bc_owed,               \* drivers whose BROADCAST_ON no BROADCAST_OFF has
                           \* answered yet
    arch_has_cpu_relax,    \* built with CONFIG_ARCH_HAS_CPU_RELAX
    cpuidle_curr_driver,   \* the one slot of a build without
                           \* CONFIG_CPU_IDLE_MULTIPLE_DRIVERS
    curr_drvs,             \* the driver objects of that build
    curr_bc_timer,         \* the broadcast timers of that build
    rets                   \* what the last call returned, in either build

\* the registry built without CONFIG_CPU_IDLE_MULTIPLE_DRIVERS
single_build == <<cpuidle_curr_driver, curr_drvs, curr_bc_timer, rets>>

vars == <<cpuidle_drivers, drvs, bc_timer, off, cpuidle_driver_lock, pc, loc, held,
          bc_owed, arch_has_cpu_relax, single_build>>

\* what a caller can observe of the registry
Snapshot == [slots |-> cpuidle_drivers, drvs |-> drvs, bc |-> bc_timer]

\* the snapshot field of a thread that is in no call
NoSnapshot == [slots |-> <<>>, drvs |-> <<>>, bc |-> <<>>]

\* notified: the on_each_cpu_mask calls made so far by the function the
\* thread is in, each with its argument and its mask; polled: how often the
\* function has written the polling state
IdleLoc == [op |-> "none", drv |-> NULL, cpu |-> 0, ret |-> "none",
            ref |-> <<NULL, 0>>, pre |-> NoSnapshot, notified |-> <<>>,
            polled |-> 0]

RECURSIVE HeldUpTo(_, _, _)
\* references to d held on the cpus 0 .. n
HeldUpTo(h, d, n) == IF n < 0 THEN 0 ELSE h[d][n] + HeldUpTo(h, d, n - 1)

\* references to d that are outstanding
HeldOf(h, d) == HeldUpTo(h, d, NumCpus - 1)

\* references outstanding, to any driver
HeldTotal(h) ==
    HeldOf(h, "A") + HeldOf(h, "B") + HeldOf(h, "C") + HeldOf(h, "D") + HeldOf(h, "E")

\* nothing registered, no thread in a call
InitRegistry ==
    /\ cpuidle_drivers = [c \in CPUs |-> NULL]
    /\ bc_timer = [c \in CPUs |-> FALSE]
    /\ off \in BOOLEAN
    /\ cpuidle_driver_lock = NoThread
    /\ pc = [t \in Threads |-> "idle"]
    /\ loc = [t \in Threads |-> IdleLoc]
    /\ held = [d \in Drivers |-> [c \in CPUs |-> 0]]
    /\ bc_owed = {}
    /\ cpuidle_curr_driver = NULL
    /\ curr_bc_timer = [c \in CPUs |-> FALSE]
    /\ rets = [multiple |-> "none", single |-> "none"]

\* the build without CONFIG_ARCH_HAS_CPU_RELAX
Init ==
    /\ InitRegistry
    /\ drvs = [d \in Drivers |-> ProducerDriver(d)]
    /\ curr_drvs = drvs
    /\ arch_has_cpu_relax = FALSE

\* the build with CONFIG_ARCH_HAS_CPU_RELAX
InitRelax ==
    /\ InitRegistry
    /\ drvs = [d \in Drivers |-> RelaxDriver(d)]
    /\ curr_drvs = drvs
    /\ arch_has_cpu_relax = TRUE

(* --------------------------- pure functions ---------------------------- *)

\* for_each_cpu: the first cpu of mask above n, nr_cpu_ids when there is none
cpumask_next(n, mask) ==
    IF \E c \in mask : c > n
    THEN CHOOSE c \in mask : c > n /\ \A e \in mask : e > n => c <= e
    ELSE nr_cpu_ids

__cpuidle_get_cpu_driver(slots, cpu) == slots[cpu]

\* faulty variant: nothing unwound
unset_driver_nothing(slots, drv, mask) == slots

\* faulty variant: the loop left after the first slot cleared
unset_driver_first_only(slots, drv, mask) ==
    [cpu \in CPUs |->
        IF /\ cpu \in mask
           /\ drv = slots[cpu]
           /\ \A e \in mask : e < cpu => slots[e] # drv
        THEN NULL
        ELSE slots[cpu]]

\* faulty variant: every slot of the mask cleared, whoever holds it
unset_driver_whole_mask(slots, drv, mask) ==
    [cpu \in CPUs |-> IF cpu \in mask THEN NULL ELSE slots[cpu]]

__cpuidle_unset_driver(slots, drv, mask) ==
    [cpu \in CPUs |->
        IF cpu \in mask /\ drv = __cpuidle_get_cpu_driver(slots, cpu)
        THEN NULL
        ELSE slots[cpu]]

\* faulty variant: the slot written without looking at what it holds
set_driver_iteration_unchecked(slots, drv, mask, cpu) ==
    [slots |-> [slots EXCEPT ![cpu] = drv], ret |-> "OK"]

\* one iteration of the loop of __cpuidle_set_driver, at cpu
set_driver_iteration(slots, drv, mask, cpu) ==
    IF __cpuidle_get_cpu_driver(slots, cpu) # NULL
    THEN [slots |-> __cpuidle_unset_driver(slots, drv, mask), ret |-> "EBUSY"]
    ELSE [slots |-> [slots EXCEPT ![cpu] = drv], ret |-> "OK"]

RECURSIVE set_driver_from(_, _, _, _)
\* the loop of __cpuidle_set_driver from cpu on, to its return
set_driver_from(slots, drv, mask, cpu) ==
    IF cpu >= nr_cpu_ids
    THEN [slots |-> slots, ret |-> "OK"]
    ELSE LET it == set_driver_iteration(slots, drv, mask, cpu)
         IN  IF it.ret = "EBUSY"
             THEN it
             ELSE set_driver_from(it.slots, drv, mask, cpumask_next(cpu, mask))

\* __cpuidle_set_driver(drv), the whole call
__cpuidle_set_driver(slots, drv, mask) ==
    set_driver_from(slots, drv, mask, cpumask_next(-1, mask))

\* faulty variant: the last state of the table not looked at
driver_init_skips_last(d) ==
    [d EXCEPT !.refcnt  = 0,
              !.cpumask = IF @ = NULL_cpumask THEN cpu_possible_mask ELSE @,
              !.bctimer = IF \E i \in 1 .. (d.state_count - 1) :
                                "CPUIDLE_FLAG_TIMER_STOP" \in d.states[i].flags
                          THEN TRUE
                          ELSE @]

\* faulty variant: the reference count left as the caller passed it
driver_init_keeps_refcnt(d) ==
    [d EXCEPT !.cpumask = IF @ = NULL_cpumask THEN cpu_possible_mask ELSE @,
              !.bctimer = IF \E i \in 1 .. d.state_count :
                                "CPUIDLE_FLAG_TIMER_STOP" \in d.states[i].flags
                          THEN TRUE
                          ELSE @]

__cpuidle_driver_init(d) ==
    [d EXCEPT !.refcnt  = 0,
              !.cpumask = IF @ = NULL_cpumask THEN cpu_possible_mask ELSE @,
              !.bctimer = IF \E i \in 1 .. d.state_count :
                                "CPUIDLE_FLAG_TIMER_STOP" \in d.states[i].flags
                          THEN TRUE
                          ELSE @]

\* on_each_cpu_mask(mask, cpuidle_setup_broadcast_timer, arg, 1)
on_each_cpu_mask(bc, mask, arg) ==
    [c \in CPUs |->
        IF c \in mask
        THEN arg = "CLOCK_EVT_NOTIFY_BROADCAST_ON"
        ELSE bc[c]]

\* faulty variant: cpuidle_disabled() looked at first
register_sanity_disabled_first(d, disabled) ==
    IF disabled THEN "ENODEV"
    ELSE IF d = NULL \/ drvs[d].state_count = 0 THEN "EINVAL"
    ELSE "OK"

\* the sanity checks of __cpuidle_register_driver
register_sanity(d, disabled) ==
    IF d = NULL \/ drvs[d].state_count = 0 THEN "EINVAL"
    ELSE IF disabled THEN "ENODEV"
    ELSE "OK"

spin_trylock(lock) == lock = NoThread

\* threads are interchangeable: the thread that enters a function is the
\* lowest one that is in none
Enters(t) ==
    /\ pc[t] = "idle"
    /\ \A u \in Threads : u < t => pc[u] # "idle"

(* ------------------------- cpuidle_register_driver --------------------- *)

\* spin_lock, the sanity checks and __cpuidle_driver_init
register_lock(t, d) ==
    /\ Enters(t)
    /\ spin_trylock(cpuidle_driver_lock)
    /\ cpuidle_driver_lock' = t
    /\ LET san == register_sanity(d, off)
       IN  IF san # "OK"
           THEN /\ pc' = [pc EXCEPT ![t] = "reg_unlock"]
                /\ loc' = [loc EXCEPT ![t] = [IdleLoc EXCEPT !.op = "register",
                               !.drv = d, !.ret = san, !.pre = Snapshot]]
                /\ UNCHANGED drvs
           ELSE LET nd == __cpuidle_driver_init(drvs[d])
                    first == cpumask_next(-1, nd.cpumask)
                IN  /\ drvs' = [drvs EXCEPT ![d] = nd]
                    /\ pc' = [pc EXCEPT ![t] =
                                IF first >= nr_cpu_ids THEN "bctimer" ELSE "set_driver"]
                    /\ loc' = [loc EXCEPT ![t] = [IdleLoc EXCEPT !.op = "register",
                                   !.drv = d, !.cpu = first, !.pre = Snapshot]]
    /\ UNCHANGED <<cpuidle_drivers, bc_timer, off, held,
                 bc_owed, arch_has_cpu_relax, single_build>>

\* one iteration of for_each_cpu in __cpuidle_set_driver
set_driver(t) ==
    /\ pc[t] = "set_driver"
    /\ LET d   == loc[t].drv
           cpu == loc[t].cpu
           r   == set_driver_iteration(cpuidle_drivers, d, drvs[d].cpumask, cpu)
           nxt == cpumask_next(cpu, drvs[d].cpumask)
       IN  /\ cpuidle_drivers' = r.slots
           /\ IF r.ret = "EBUSY"
              THEN /\ pc' = [pc EXCEPT ![t] = "reg_unlock"]
                   /\ loc' = [loc EXCEPT ![t].ret = "EBUSY"]
              ELSE /\ pc' = [pc EXCEPT ![t] =
                                IF nxt >= nr_cpu_ids THEN "bctimer" ELSE "set_driver"]
                   /\ loc' = [loc EXCEPT ![t].cpu = nxt]
    /\ UNCHANGED <<drvs, bc_timer, off, cpuidle_driver_lock, held,
                 bc_owed, arch_has_cpu_relax, single_build>>

\* faulty variant: the broadcast timer never switched on
register_never_bctimer(d) == FALSE

\* faulty variant: the broadcast timer switched on for every driver
register_always_bctimer(d) == TRUE

\* if (drv->bctimer) in __cpuidle_register_driver
register_needs_bctimer(d) == d.bctimer

\* faulty variant: the polling state written behind the producer's states
poll_idle_init_last(d, relax) ==
    IF relax THEN [d EXCEPT !.states[d.state_count] = STATE_POLL] ELSE d

\* poll_idle_init: writes states[0] (index 1 of the sequence) with
\* CONFIG_ARCH_HAS_CPU_RELAX, is empty without
poll_idle_init(d, relax) ==
    IF relax THEN [d EXCEPT !.states[1] = STATE_POLL] ELSE d

\* __cpuidle_set_driver returned 0: the broadcast timer, then poll_idle_init
register_bctimer(t) ==
    /\ pc[t] = "bctimer"
    /\ LET d == loc[t].drv
           polls == IF arch_has_cpu_relax THEN 1 ELSE 0
       IN  /\ IF register_needs_bctimer(drvs[d])
              THEN /\ bc_timer' = on_each_cpu_mask(bc_timer, drvs[d].cpumask,
                                                   "CLOCK_EVT_NOTIFY_BROADCAST_ON")
                   /\ loc' = [loc EXCEPT ![t].ret = "OK",
                                  ![t].polled = @ + polls,
                                  ![t].notified = Append(@,
                                      [arg |-> "CLOCK_EVT_NOTIFY_BROADCAST_ON",
                                       mask |-> drvs[d].cpumask])]
              ELSE /\ bc_timer' = bc_timer
                   /\ loc' = [loc EXCEPT ![t].ret = "OK", ![t].polled = @ + polls]
           /\ drvs' = [drvs EXCEPT ![d] = poll_idle_init(@, arch_has_cpu_relax)]
           /\ bc_owed' = IF register_needs_bctimer(drvs[d])
                         THEN bc_owed \cup {d}
                         ELSE bc_owed
    /\ pc' = [pc EXCEPT ![t] = "reg_unlock"]
    /\ UNCHANGED <<cpuidle_drivers, off, cpuidle_driver_lock, held,
                 arch_has_cpu_relax, single_build>>

\* spin_unlock and return ret
register_unlock(t) ==
    /\ pc[t] = "reg_unlock"
    /\ cpuidle_driver_lock' = NoThread
    /\ pc' = [pc EXCEPT ![t] = "idle"]
    /\ loc' = [loc EXCEPT ![t] = IdleLoc]
    /\ UNCHANGED <<cpuidle_drivers, drvs, bc_timer, off, held,
                 bc_owed, arch_has_cpu_relax, single_build>>

cpuidle_register_driver(t) ==
    \/ \E d \in Drivers \cup {NULL} : register_lock(t, d)
    \/ set_driver(t)
    \/ register_bctimer(t)
    \/ register_unlock(t)

(* ------------------------ cpuidle_unregister_driver -------------------- *)

\* faulty variant: no refcount check
unregister_never_refused(d) == FALSE

\* WARN_ON(drv->refcnt > 0) in __cpuidle_unregister_driver
unregister_refused(d) == d.refcnt > 0

\* spin_lock, the refcount check, and the broadcast timer switched off
unregister_lock(t, d) ==
    /\ Enters(t)
    /\ spin_trylock(cpuidle_driver_lock)
    /\ cpuidle_driver_lock' = t
    /\ IF unregister_refused(drvs[d])
       THEN /\ bc_owed' = bc_owed
            /\ pc' = [pc EXCEPT ![t] = "unreg_unlock"]
            /\ loc' = [loc EXCEPT ![t] = [IdleLoc EXCEPT !.op = "unregister",
                           !.drv = d, !.ret = "WARN", !.pre = Snapshot]]
            /\ UNCHANGED <<drvs, bc_timer>>
       ELSE /\ pc' = [pc EXCEPT ![t] = "unset_driver"]
            /\ IF drvs[d].bctimer
               THEN /\ drvs' = [drvs EXCEPT ![d].bctimer = FALSE]
                    /\ bc_owed' = bc_owed \ {d}
                    /\ bc_timer' = on_each_cpu_mask(bc_timer, drvs[d].cpumask,
                                                    "CLOCK_EVT_NOTIFY_BROADCAST_OFF")
                    /\ loc' = [loc EXCEPT ![t] = [IdleLoc EXCEPT !.op = "unregister",
                                   !.drv = d, !.pre = Snapshot,
                                   !.notified =
                                       <<[arg |-> "CLOCK_EVT_NOTIFY_BROADCAST_OFF",
                                          mask |-> drvs[d].cpumask]>>]]
               ELSE /\ loc' = [loc EXCEPT ![t] = [IdleLoc EXCEPT !.op = "unregister",
                                   !.drv = d, !.pre = Snapshot]]
                    /\ UNCHANGED <<drvs, bc_timer, bc_owed>>
    /\ UNCHANGED <<cpuidle_drivers, off, held,
                 arch_has_cpu_relax, single_build>>

\* __cpuidle_unset_driver(drv).  for_each_cpu on a NULL drv->cpumask (a
\* driver that gave no mask and was never handed to register) reads through
\* a null pointer: the kernel oopses in the thread, which never returns and
\* never releases the spinlock.
unregister_unset(t) ==
    /\ pc[t] = "unset_driver"
    /\ LET d == loc[t].drv
       IN  IF drvs[d].cpumask = NULL_cpumask
           THEN /\ pc' = [pc EXCEPT ![t] = "oops"]
                /\ UNCHANGED <<cpuidle_drivers, loc>>
           ELSE /\ cpuidle_drivers' =
                       __cpuidle_unset_driver(cpuidle_drivers, d, drvs[d].cpumask)
                /\ pc' = [pc EXCEPT ![t] = "unreg_unlock"]
                /\ loc' = [loc EXCEPT ![t].ret = "OK"]
    /\ UNCHANGED <<drvs, bc_timer, off, cpuidle_driver_lock, held,
                 bc_owed, arch_has_cpu_relax, single_build>>

\* spin_unlock and return
unregister_unlock(t) ==
    /\ pc[t] = "unreg_unlock"
    /\ cpuidle_driver_lock' = NoThread
    /\ pc' = [pc EXCEPT ![t] = "idle"]
    /\ loc' = [loc EXCEPT ![t] = IdleLoc]
    /\ UNCHANGED <<cpuidle_drivers, drvs, bc_timer, off, held,
                 bc_owed, arch_has_cpu_relax, single_build>>

cpuidle_unregister_driver(t) ==
    \/ \E d \in Drivers : unregister_lock(t, d)
    \/ unregister_unset(t)
    \/ unregister_unlock(t)

(* ---------------------------- cpuidle_driver_ref ----------------------- *)

\* faulty variant: the spinlock not taken
driver_ref_no_spin_lock(t) == NoThread

\* the value of cpuidle_driver_lock once cpuidle_driver_ref has taken it
driver_ref_spin_lock(t) == t

\* drv->refcnt++
driver_ref_get(d) == [d EXCEPT !.refcnt = @ + 1]

\* spin_lock and drv = cpuidle_get_driver(), the caller running on cpu.
\* The guards on MaxRef bound the model.
driver_ref_lock(t, cpu) ==
    /\ Enters(t)
    /\ spin_trylock(cpuidle_driver_lock)
    /\ HeldTotal(held) < MaxRef
    /\ LET drv == __cpuidle_get_cpu_driver(cpuidle_drivers, cpu)
       IN  /\ drv # NULL => drvs[drv].refcnt < MaxRef
           /\ loc' = [loc EXCEPT ![t] = [IdleLoc EXCEPT !.op = "ref",
                          !.drv = drv, !.cpu = cpu, !.pre = Snapshot]]
    /\ cpuidle_driver_lock' = driver_ref_spin_lock(t)
    /\ pc' = [pc EXCEPT ![t] = "ref_inc"]
    /\ UNCHANGED <<cpuidle_drivers, drvs, bc_timer, off, held,
                 bc_owed, arch_has_cpu_relax, single_build>>

\* if (drv) drv->refcnt++
driver_ref_inc(t) ==
    /\ pc[t] = "ref_inc"
    /\ LET drv == loc[t].drv
       IN  /\ drvs' = IF drv # NULL
                      THEN [drvs EXCEPT ![drv] = driver_ref_get(@)]
                      ELSE drvs
           /\ loc' = [loc EXCEPT ![t].ret = drv]
    /\ pc' = [pc EXCEPT ![t] = "ref_unlock"]
    /\ UNCHANGED <<cpuidle_drivers, bc_timer, off, cpuidle_driver_lock, held,
                 bc_owed, arch_has_cpu_relax, single_build>>

\* spin_unlock and return drv: the caller now holds a reference to drv,
\* taken on cpu
driver_ref_unlock(t) ==
    /\ pc[t] = "ref_unlock"
    /\ cpuidle_driver_lock' = NoThread
    /\ held' = IF loc[t].ret # NULL
               THEN [held EXCEPT ![loc[t].ret][loc[t].cpu] = @ + 1]
               ELSE held
    /\ pc' = [pc EXCEPT ![t] = "idle"]
    /\ loc' = [loc EXCEPT ![t] = IdleLoc]
    /\ UNCHANGED <<cpuidle_drivers, drvs, bc_timer, off,
                 bc_owed, arch_has_cpu_relax, single_build>>

cpuidle_driver_ref(t) ==
    \/ \E cpu \in CPUs : driver_ref_lock(t, cpu)
    \/ driver_ref_inc(t)
    \/ driver_ref_unlock(t)

(* --------------------------- cpuidle_driver_unref ---------------------- *)

\* faulty variant: the decrement without the underflow check
driver_unref_put_unchecked(d) == [d EXCEPT !.refcnt = @ - 1]

\* if (drv && !WARN_ON(drv->refcnt <= 0)) drv->refcnt--
driver_unref_put(d) == IF d.refcnt <= 0 THEN d ELSE [d EXCEPT !.refcnt = @ - 1]

\* the references a caller can give back: one handed out and still held,
\* or none at all (a release nobody is entitled to) when none is outstanding
Releasable ==
    {r \in Drivers \X CPUs : held[r[1]][r[2]] > 0}
        \cup (IF HeldTotal(held) = 0 THEN {<<NULL, 0>>} ELSE {})

\* spin_lock, drv = cpuidle_get_driver() and the decrement.  The caller
\* gives back reference ref and runs on cpu: the function takes no argument
\* and uses the driver of the cpu it runs on.
driver_unref_lock(t, cpu, ref) ==
    /\ Enters(t)
    /\ spin_trylock(cpuidle_driver_lock)
    /\ cpuidle_driver_lock' = t
    /\ LET drv == __cpuidle_get_cpu_driver(cpuidle_drivers, cpu)
       IN  /\ drvs' = IF drv # NULL
                      THEN [drvs EXCEPT ![drv] = driver_unref_put(@)]
                      ELSE drvs
           /\ loc' = [loc EXCEPT ![t] = [IdleLoc EXCEPT !.op = "unref",
                          !.drv = drv, !.cpu = cpu, !.ref = ref, !.pre = Snapshot]]
    /\ pc' = [pc EXCEPT ![t] = "unref_unlock"]
    /\ UNCHANGED <<cpuidle_drivers, bc_timer, off, held,
                 bc_owed, arch_has_cpu_relax, single_build>>

\* spin_unlock and return: the caller's reference is gone
driver_unref_unlock(t) ==
    /\ pc[t] = "unref_unlock"
    /\ cpuidle_driver_lock' = NoThread
    /\ held' = IF loc[t].ref[1] # NULL
               THEN [held EXCEPT ![loc[t].ref[1]][loc[t].ref[2]] = @ - 1]
               ELSE held
    /\ pc' = [pc EXCEPT ![t] = "idle"]
    /\ loc' = [loc EXCEPT ![t] = IdleLoc]
    /\ UNCHANGED <<cpuidle_drivers, drvs, bc_timer, off,
                 bc_owed, arch_has_cpu_relax, single_build>>

cpuidle_driver_unref(t) ==
    \/ \E cpu \in CPUs : \E ref \in Releasable : driver_unref_lock(t, cpu, ref)
    \/ driver_unref_unlock(t)

(* ---------------------------- specification ---------------------------- *)

Next ==
    \E t \in Threads :
        \/ cpuidle_register_driver(t)
        \/ cpuidle_unregister_driver(t)
        \/ cpuidle_driver_ref(t)
        \/ cpuidle_driver_unref(t)

Spec == Init /\ [][Next]_vars

SpecRelax == InitRelax /\ [][Next]_vars

\* a struct cpuidle_device pointer that is NULL (devices are records with
\* their cpu)
NULL_device == [cpu |-> -1]

(* --------- the builds with and without CONFIG_CPU_IDLE_MULTIPLE_DRIVERS,
   call by call ---------------------------------------------------------- *)

\* __cpuidle_get_cpu_driver without CONFIG_CPU_IDLE_MULTIPLE_DRIVERS
get_cpu_driver_single(curr, cpu) == curr

\* __cpuidle_set_driver without CONFIG_CPU_IDLE_MULTIPLE_DRIVERS
set_driver_single(curr, drv) ==
    IF curr # NULL
    THEN [slots |-> curr, ret |-> "EBUSY"]
    ELSE [slots |-> drv, ret |-> "OK"]

\* __cpuidle_unset_driver without CONFIG_CPU_IDLE_MULTIPLE_DRIVERS
unset_driver_single(curr, drv) == IF drv = curr THEN NULL ELSE curr

\* a registry is a record of its slots (the per-cpu array, or the one
\* variable), its driver objects and its broadcast timers; single tells the
\* build.  Each call below runs from spin_lock to spin_unlock and gives
\* the registry it leaves and what it returns.
get_cpu_driver_of(reg, cpu, single) ==
    IF single
    THEN get_cpu_driver_single(reg.slots, cpu)
    ELSE __cpuidle_get_cpu_driver(reg.slots, cpu)

\* cpuidle_register_driver(drv)
register_driver(reg, d, disabled, relax, single) ==
    IF d = NULL \/ reg.drvs[d].state_count = 0 THEN [reg |-> reg, ret |-> "EINVAL"]
    ELSE IF disabled THEN [reg |-> reg, ret |-> "ENODEV"]
    ELSE LET nd  == __cpuidle_driver_init(reg.drvs[d])
             set == IF single
                    THEN set_driver_single(reg.slots, d)
                    ELSE __cpuidle_set_driver(reg.slots, d, nd.cpumask)
         IN  IF set.ret # "OK"
             THEN [reg |-> [reg EXCEPT !.slots = set.slots, !.drvs[d] = nd],
                   ret |-> set.ret]
             ELSE [reg |-> [reg EXCEPT !.slots = set.slots,
                                       !.drvs[d] = poll_idle_init(nd, relax),
                                       !.bc = IF register_needs_bctimer(nd)
                                              THEN on_each_cpu_mask(@, nd.cpumask,
                                                       "CLOCK_EVT_NOTIFY_BROADCAST_ON")
                                              ELSE @],
                   ret |-> "OK"]

\* cpuidle_unregister_driver(drv)
unregister_driver(reg, d, single) ==
    IF unregister_refused(reg.drvs[d])
    THEN [reg |-> reg, ret |-> "WARN"]
    ELSE [reg |-> [reg EXCEPT
                     !.drvs[d].bctimer = FALSE,
                     !.bc = IF reg.drvs[d].bctimer
                            THEN on_each_cpu_mask(@, reg.drvs[d].cpumask,
                                     "CLOCK_EVT_NOTIFY_BROADCAST_OFF")
                            ELSE @,
                     !.slots = IF single
                               THEN unset_driver_single(@, d)
                               ELSE __cpuidle_unset_driver(@, d, reg.drvs[d].cpumask)],
          ret |-> "OK"]

\* cpuidle_driver_ref(), called on cpu
driver_ref(reg, cpu, single) ==
    LET d == get_cpu_driver_of(reg, cpu, single)
    IN  IF d = NULL
        THEN [reg |-> reg, ret |-> NULL]
        ELSE [reg |-> [reg EXCEPT !.drvs[d] = driver_ref_get(@)], ret |-> d]

\* cpuidle_driver_unref(), called on cpu
driver_unref(reg, cpu, single) ==
    LET d == get_cpu_driver_of(reg, cpu, single)
    IN  IF d = NULL
        THEN [reg |-> reg, ret |-> "void"]
        ELSE [reg |-> [reg EXCEPT !.drvs[d] = driver_unref_put(@)], ret |-> "void"]

\* the registry of the build with one slot
SingleSnapshot ==
    [slots |-> cpuidle_curr_driver, drvs |-> curr_drvs, bc |-> curr_bc_timer]

\* both builds have made the same call: m is what it gave with per-cpu
\* slots, s what it gave with the one slot
BothBuilds(m, s) ==
    /\ cpuidle_drivers' = m.reg.slots
    /\ drvs' = m.reg.drvs
    /\ bc_timer' = m.reg.bc
    /\ cpuidle_curr_driver' = s.reg.slots
    /\ curr_drvs' = s.reg.drvs
    /\ curr_bc_timer' = s.reg.bc
    /\ rets' = [multiple |-> m.ret, single |-> s.ret]
    /\ UNCHANGED <<off, cpuidle_driver_lock, pc, loc, held, bc_owed,
                   arch_has_cpu_relax>>

both_register(d) ==
    /\ spin_trylock(cpuidle_driver_lock)
    /\ BothBuilds(register_driver(Snapshot, d, off, arch_has_cpu_relax, FALSE),
                  register_driver(SingleSnapshot, d, off, arch_has_cpu_relax, TRUE))

both_unregister(d) ==
    /\ spin_trylock(cpuidle_driver_lock)
    /\ BothBuilds(unregister_driver(Snapshot, d, FALSE),
                  unregister_driver(SingleSnapshot, d, TRUE))

\* the reference counts kept below MaxRef
both_driver_ref(cpu) ==
    /\ spin_trylock(cpuidle_driver_lock)
    /\ \A d \in Drivers : drvs[d].refcnt < MaxRef /\ curr_drvs[d].refcnt < MaxRef
    /\ BothBuilds(driver_ref(Snapshot, cpu, FALSE),
                  driver_ref(SingleSnapshot, cpu, TRUE))

both_driver_unref(cpu) ==
    /\ spin_trylock(cpuidle_driver_lock)
    /\ BothBuilds(driver_unref(Snapshot, cpu, FALSE),
                  driver_unref(SingleSnapshot, cpu, TRUE))

\* every driver with all cpus as its mask
InitBoth ==
    /\ InitRegistry
    /\ drvs = [d \in Drivers |->
                  [ProducerDriver(d) EXCEPT !.cpumask = cpu_possible_mask]]
    /\ curr_drvs = drvs
    /\ arch_has_cpu_relax = FALSE

NextBoth ==
    \/ \E d \in Drivers \cup {NULL} : both_register(d)
    \/ \E d \in Drivers : both_unregister(d)
    \/ \E cpu \in CPUs : both_driver_ref(cpu)
    \/ \E cpu \in CPUs : both_driver_unref(cpu)

SpecBoth == InitBoth /\ [][NextBoth]_vars

\* cpuidle_get_cpu_driver(dev): takes no lock
cpuidle_get_cpu_driver(dev) ==
    IF dev = NULL_device
    THEN NULL
    ELSE __cpuidle_get_cpu_driver(cpuidle_drivers, dev.cpu)

(* ------------------------------- claims -------------------------------- *)

\* the mask register works on: all possible cpus when the driver gives none
EffMask(d) == IF d.cpumask = NULL_cpumask THEN cpu_possible_mask ELSE d.cpumask

\* d is associated with some cpu
Holds(slots, d) == \E c \in CPUs : slots[c] = d

\* thread t is about to return from cpuidle_register_driver
RegisterReturns(t) == pc[t] = "reg_unlock"

\* the driver of the register call of t passed the sanity checks
RegisterSane(t) ==
    /\ loc[t].drv # NULL
    /\ loc[t].pre.drvs[loc[t].drv].state_count > 0
    /\ ~off

\* C1: Exclusivity.  Every cpu has one slot, holding a driver or nothing;
\* outside the scan loop of a register call no two distinct drivers with
\* overlapping masks are both associated with cpus; and a register(D2) of a
\* driver that passes the sanity checks, called while another driver D1 holds
\* a cpu of D2's mask, returns -EBUSY and leaves the cpus of D1 what they were.
C1_Exclusivity ==
    /\ cpuidle_drivers \in [CPUs -> Drivers \cup {NULL}]
    /\ (\A t \in Threads : pc[t] # "set_driver") =>
          \A d1 \in Drivers, d2 \in Drivers :
              (d1 # d2 /\ EffMask(drvs[d1]) \cap EffMask(drvs[d2]) # {}) =>
                  ~(Holds(cpuidle_drivers, d1) /\ Holds(cpuidle_drivers, d2))
    /\ \A t \in Threads :
          (RegisterReturns(t) /\ RegisterSane(t)) =>
              \A d1 \in Drivers \ {loc[t].drv} :
                  (\E c \in EffMask(loc[t].pre.drvs[loc[t].drv]) :
                        loc[t].pre.slots[c] = d1) =>
                      /\ loc[t].ret = "EBUSY"
                      /\ \A c \in CPUs :
                            (loc[t].pre.slots[c] = d1) <=> (cpuidle_drivers[c] = d1)

\* a register(D2) that found a cpu of its mask held by another driver, after
\* writing D2 into a free cpu, has returned -EBUSY
C1_Witness ==
    \E t \in Threads :
        /\ RegisterReturns(t)
        /\ loc[t].ret = "EBUSY"
        /\ loc[t].drv = "A"
        /\ loc[t].pre.slots[0] = NULL
        /\ loc[t].pre.slots[1] = "B"
        /\ cpuidle_drivers[1] = "B"

\* C2: register(D) returns 0 exactly when D is given, has a state, cpuidle is
\* enabled and every cpu of D's mask (all possible cpus without a mask) is
\* free; then every cpu of the mask holds D, every other cpu holds what it
\* held, and D's refcnt is 0.
C2_RegisterSucceedsIff ==
    \A t \in Threads :
        RegisterReturns(t) =>
            LET d == loc[t].drv
                p == loc[t].pre
            IN  /\ (loc[t].ret = "OK") <=>
                      /\ RegisterSane(t)
                      /\ \A c \in EffMask(p.drvs[d]) : p.slots[c] = NULL
                /\ (loc[t].ret = "OK") =>
                      /\ \A c \in CPUs :
                            cpuidle_drivers[c] =
                                IF c \in EffMask(p.drvs[d]) THEN d ELSE p.slots[c]
                      /\ drvs[d].refcnt = 0

\* a register of A has returned 0 while D kept cpu 2
C2_Witness ==
    \E t \in Threads :
        /\ RegisterReturns(t)
        /\ loc[t].ret = "OK"
        /\ loc[t].drv = "A"
        /\ cpuidle_drivers[0] = "A"
        /\ cpuidle_drivers[1] = "A"
        /\ cpuidle_drivers[2] = "D"

\* C3: Atomic rollback.  When register(D) returns -EBUSY and D's mask had
\* both a held and a free cpu before the call, no cpu of the mask holds D on
\* return and every cpu holds what it held before the call.
C3_AtomicRollback ==
    \A t \in Threads :
        (RegisterReturns(t) /\ loc[t].ret = "EBUSY") =>
            LET d == loc[t].drv
                p == loc[t].pre
                m == EffMask(p.drvs[d])
            IN  ((\E c \in m : p.slots[c] # NULL) /\ (\E c \in m : p.slots[c] = NULL)) =>
                    /\ \A c \in m : cpuidle_drivers[c] # d
                    /\ cpuidle_drivers = p.slots

\* register(C) wrote C into cpus 0 and 1, met D on cpu 2, the last cpu of the
\* scan, and has returned -EBUSY
C3_Witness ==
    \E t \in Threads :
        /\ RegisterReturns(t)
        /\ loc[t].ret = "EBUSY"
        /\ loc[t].drv = "C"
        /\ loc[t].cpu = 2
        /\ loc[t].pre.slots = [c \in CPUs |-> IF c = 2 THEN "D" ELSE NULL]

\* C4: a register(D) that returns -EBUSY has no observable effect: the
\* slots, the refcnt of every driver, D's cpumask, D's bctimer and the
\* broadcast timers are what they were before the call.
C4_BusyRegisterNoEffect ==
    \A t \in Threads :
        (RegisterReturns(t) /\ loc[t].ret = "EBUSY") =>
            LET d == loc[t].drv
                p == loc[t].pre
            IN  /\ cpuidle_drivers = p.slots
                /\ \A e \in Drivers : drvs[e].refcnt = p.drvs[e].refcnt
                /\ drvs[d].cpumask = p.drvs[d].cpumask
                /\ drvs[d].bctimer = p.drvs[d].bctimer
                /\ bc_timer = p.bc

\* thread t is about to return from cpuidle_unregister_driver
UnregisterReturns(t) == pc[t] = "unreg_unlock"

\* C5: Refcount gate.  unregister(D) called with refcnt(D) > 0 is refused and
\* changes nothing: slots, refcnts and broadcast timers are what they were.
\* Called with refcnt(D) = 0 on a driver that holds cpus it goes through and
\* returns with no cpu holding D.
C5_RefcountGate ==
    \A t \in Threads :
        /\ UnregisterReturns(t) =>
              LET d == loc[t].drv
                  p == loc[t].pre
              IN  /\ (p.drvs[d].refcnt > 0) => (loc[t].ret = "WARN" /\ Snapshot = p)
                  /\ (p.drvs[d].refcnt = 0) =>
                        (loc[t].ret = "OK" /\ ~Holds(cpuidle_drivers, d))
        /\ (pc[t] = "unset_driver" /\ Holds(cpuidle_drivers, loc[t].drv)) =>
              drvs[loc[t].drv].cpumask # NULL_cpumask

\* unregister(A) has been refused while a reference to A taken on cpu 0 is
\* outstanding, and A still holds cpus 0 and 1
C5_Witness ==
    \E t \in Threads :
        /\ UnregisterReturns(t)
        /\ loc[t].ret = "WARN"
        /\ loc[t].drv = "A"
        /\ held["A"][0] > 0
        /\ cpuidle_drivers[0] = "A"
        /\ cpuidle_drivers[1] = "A"

\* C6: a driver is not torn down while in use: a driver returned by
\* cpuidle_driver_ref on a cpu and not yet given back is the driver of that
\* cpu.
C6_NoTeardownInUse ==
    \A d \in Drivers, c \in CPUs : held[d][c] > 0 => cpuidle_drivers[c] = d

\* C7: cpuidle_driver_ref looks up the driver of the cpu and increments its
\* refcnt in one critical section: between the lookup and the increment the
\* thread holds the spinlock, no other thread is inside a function of the
\* registry and the cpu still holds the driver looked up; on return the
\* result is the driver the cpu held on entry, NULL with nothing changed when
\* it held none, and otherwise that driver's refcnt is one more than on entry.
C7_AcquireAtomic ==
    \A t \in Threads :
        /\ pc[t] = "ref_inc" =>
              /\ cpuidle_driver_lock = t
              /\ \A u \in Threads \ {t} : pc[u] = "idle"
              /\ cpuidle_drivers[loc[t].cpu] = loc[t].drv
        /\ pc[t] = "ref_unlock" =>
              LET p == loc[t].pre
                  d == p.slots[loc[t].cpu]
              IN  /\ loc[t].ret = d
                  /\ cpuidle_drivers = p.slots
                  /\ IF d = NULL
                     THEN Snapshot = p
                     ELSE drvs[d].refcnt = p.drvs[d].refcnt + 1

\* cpuidle_driver_ref on cpu 2 has looked up D and not yet incremented
C7_Witness ==
    \E t \in Threads :
        /\ pc[t] = "ref_inc"
        /\ loc[t].cpu = 2
        /\ loc[t].drv = "D"
        /\ drvs["D"].refcnt = 0

\* thread t is about to return from cpuidle_driver_unref
UnrefReturns(t) == pc[t] = "unref_unlock"

\* C8: no refcnt is ever negative, and cpuidle_driver_unref called when the
\* refcnt of the cpu's driver is 0 (or the cpu has no driver) changes nothing.
C8_RefcountFloor ==
    /\ \A d \in Drivers : drvs[d].refcnt >= 0
    /\ \A t \in Threads :
          UnrefReturns(t) =>
              LET p == loc[t].pre
                  d == p.slots[loc[t].cpu]
              IN  (d = NULL \/ p.drvs[d].refcnt = 0) => Snapshot = p

\* cpuidle_driver_unref has run on cpu 0, whose driver A had refcnt 0
C8_Witness ==
    \E t \in Threads :
        /\ UnrefReturns(t)
        /\ loc[t].cpu = 0
        /\ loc[t].pre.slots[0] = "A"
        /\ loc[t].pre.drvs["A"].refcnt = 0

\* C9: outside the functions of the registry the refcnt of each driver is
\* the number of references to it handed out by cpuidle_driver_ref and not
\* yet given back.
C9_RefcountIsHeld ==
    (\A t \in Threads : pc[t] = "idle") =>
        \A d \in Drivers : drvs[d].refcnt = HeldOf(held, d)

\* C10: Broadcast timer mirroring.  While no register or unregister call is
\* in progress, the broadcast timer of a cpu is armed exactly when the cpu
\* has a driver and that driver's bctimer is set.
C10_TimerMirrors ==
    (\A t \in Threads : pc[t] = "idle" \/ loc[t].op \notin {"register", "unregister"}) =>
        \A c \in CPUs :
            bc_timer[c] <=>
                (cpuidle_drivers[c] # NULL /\ drvs[cpuidle_drivers[c]].bctimer)

\* some state of the table of d stops the local timer
HasTimerStop(d) ==
    \E i \in 1 .. d.state_count : "CPUIDLE_FLAG_TIMER_STOP" \in d.states[i].flags

\* C11: a register that returns 0 for a driver whose table has a TIMER_STOP
\* state has sent BROADCAST_ON once, to the driver's mask; a register of a
\* driver without such a state, and a register that fails, has sent nothing.
C11_EnableOnce ==
    \A t \in Threads :
        RegisterReturns(t) =>
            IF loc[t].ret = "OK" /\ HasTimerStop(loc[t].pre.drvs[loc[t].drv])
            THEN loc[t].notified =
                    <<[arg |-> "CLOCK_EVT_NOTIFY_BROADCAST_ON",
                       mask |-> EffMask(loc[t].pre.drvs[loc[t].drv])]>>
            ELSE loc[t].notified = <<>>

\* register(C) has returned 0 and has sent BROADCAST_ON to all cpus
C11_Witness ==
    \E t \in Threads :
        /\ RegisterReturns(t)
        /\ loc[t].ret = "OK"
        /\ loc[t].drv = "C"
        /\ loc[t].notified =
              <<[arg |-> "CLOCK_EVT_NOTIFY_BROADCAST_ON", mask |-> cpu_possible_mask]>>

\* thread t enters cpuidle_unregister_driver in this step
UnregisterEnters(t) ==
    pc[t] = "idle" /\ pc'[t] # "idle" /\ loc'[t].op = "unregister"

\* C12: an unregister that is refused sends no notification; one that is not
\* refused sends BROADCAST_OFF, once and to the driver's mask, exactly when
\* a BROADCAST_ON sent by a register of that driver is still unanswered, so
\* not for a driver that was never registered or whose register failed.
C12_DisableMatchesEnable ==
    [][\A t \in Threads :
          UnregisterEnters(t) =>
              IF loc'[t].ret # "WARN" /\ loc'[t].drv \in bc_owed
              THEN loc'[t].notified =
                      <<[arg |-> "CLOCK_EVT_NOTIFY_BROADCAST_OFF",
                         mask |-> drvs[loc'[t].drv].cpumask]>>
              ELSE loc'[t].notified = <<>>]_vars

\* C13: when unregister(D) of a registered driver D has gone through, every
\* cpu of D's mask has no driver and every other cpu has the driver it had;
\* a register of a driver that passes the sanity checks and whose mask held
\* no driver but D before the unregister would now return 0.
C13_UnregisterFrees ==
    \A t \in Threads :
        (/\ UnregisterReturns(t)
         /\ loc[t].ret = "OK"
         /\ Holds(loc[t].pre.slots, loc[t].drv)) =>
            LET d == loc[t].drv
                p == loc[t].pre
            IN  /\ \A c \in CPUs :
                       cpuidle_drivers[c] =
                           IF c \in p.drvs[d].cpumask THEN NULL ELSE p.slots[c]
                /\ \A b \in Drivers :
                       (/\ register_sanity(b, off) = "OK"
                        /\ \A c \in EffMask(drvs[b]) : p.slots[c] \in {NULL, d}) =>
                           __cpuidle_set_driver(cpuidle_drivers, b,
                                                EffMask(drvs[b])).ret = "OK"

\* unregister(A) has gone through; A held cpus 0 and 1, so B (cpus 1 and 2)
\* could not register before and can now
C13_Witness ==
    \E t \in Threads :
        /\ UnregisterReturns(t)
        /\ loc[t].ret = "OK"
        /\ loc[t].drv = "A"
        /\ loc[t].pre.slots = [c \in CPUs |-> IF c \in {0, 1} THEN "A" ELSE NULL]
        /\ __cpuidle_set_driver(loc[t].pre.slots, "B", {1, 2}).ret = "EBUSY"
        /\ __cpuidle_set_driver(cpuidle_drivers, "B", {1, 2}).ret = "OK"

\* C14: register returns -EINVAL exactly when the driver pointer is NULL or
\* the state table is empty, and -ENODEV exactly when neither is so and
\* cpuidle is disabled; with either result the slots, the drivers (refcount,
\* mask, bctimer, tables) and the broadcast timers are as before the call and
\* nothing was sent to the timers.
C14_SanityFailures ==
    \A t \in Threads :
        RegisterReturns(t) =>
            LET d == loc[t].drv
                p == loc[t].pre
                invalid == d = NULL \/ p.drvs[d].state_count = 0
            IN  /\ loc[t].ret = "EINVAL" <=> invalid
                /\ loc[t].ret = "ENODEV" <=> (~invalid /\ off)
                /\ loc[t].ret \in {"EINVAL", "ENODEV"} =>
                       /\ Snapshot = p
                       /\ loc[t].notified = <<>>
                       /\ loc[t].polled = 0

\* register(E), whose table is empty, returns -EINVAL while cpuidle is
\* disabled
C14_Witness ==
    \E t \in Threads :
        /\ RegisterReturns(t)
        /\ loc[t].drv = "E"
        /\ off
        /\ loc[t].ret = "EINVAL"

\* C15: built with CONFIG_ARCH_HAS_CPU_RELAX, when register returns 0 the
\* first state of the driver's table is the polling state (no exit latency,
\* no target residency, CPUIDLE_FLAG_TIME_VALID as its only flag, not
\* disabled) whatever the producer had put there, the other states are the
\* producer's, and the polling state was written once in the call; when
\* register fails the table is the one the producer handed in.
C15_PollingState ==
    arch_has_cpu_relax =>
        \A t \in Threads :
            RegisterReturns(t) =>
                LET d == loc[t].drv
                    p == loc[t].pre
                IN  IF loc[t].ret = "OK"
                    THEN /\ drvs[d].states[1].exit_latency = 0
                         /\ drvs[d].states[1].target_residency = 0
                         /\ drvs[d].states[1].flags = {"CPUIDLE_FLAG_TIME_VALID"}
                         /\ ~drvs[d].states[1].disabled
                         /\ drvs[d].states[1].enter = "poll_idle"
                         /\ drvs[d].state_count = p.drvs[d].state_count
                         /\ \A i \in 2 .. drvs[d].state_count :
                                drvs[d].states[i] = p.drvs[d].states[i]
                         /\ loc[t].polled = 1
                    ELSE /\ d # NULL => drvs[d].states = p.drvs[d].states
                         /\ loc[t].polled = 0

\* register(B) has returned 0; B had handed in a disabled WFI state as its
\* first state, which is now the polling state
C15_Witness ==
    \E t \in Threads :
        /\ arch_has_cpu_relax
        /\ RegisterReturns(t)
        /\ loc[t].ret = "OK"
        /\ loc[t].drv = "B"
        /\ loc[t].pre.drvs["B"].states[1] = STATE_TIME_VALID
        /\ drvs["B"].states[1] = STATE_POLL

\* thread t is in a register call that has passed the sanity checks and has
\* not failed
Registering(t) == pc[t] \in {"set_driver", "bctimer"}

\* C16 as stated: while a register of a driver with bctimer set is under way,
\* cpuidle_get_cpu_driver returns that driver only for cpus whose broadcast
\* timer is on.
C16_ArmBeforePublish ==
    \A t \in Threads : \A c \in CPUs :
        (/\ Registering(t)
         /\ cpuidle_get_cpu_driver([cpu |-> c]) = loc[t].drv
         /\ drvs[loc[t].drv].bctimer) =>
            bc_timer[c]

\* C16, amended: register writes the driver into every slot of its mask
\* before it sends BROADCAST_ON, and sends BROADCAST_ON before it returns:
\* when the timer is about to be switched on every cpu of the mask already
\* has the driver and nothing was sent yet, and when register returns 0 for
\* a driver with bctimer set every cpu of the mask has the driver and its
\* broadcast timer on.
C16_PublishThenArm ==
    \A t \in Threads :
        LET d == loc[t].drv
        IN  /\ pc[t] = "bctimer" =>
                   /\ loc[t].notified = <<>>
                   /\ \A c \in drvs[d].cpumask :
                          cpuidle_get_cpu_driver([cpu |-> c]) = d
            /\ (RegisterReturns(t) /\ loc[t].ret = "OK" /\ drvs[d].bctimer) =>
                   \A c \in drvs[d].cpumask :
                       /\ cpuidle_get_cpu_driver([cpu |-> c]) = d
                       /\ bc_timer[c]

\* register(A) has written A into the slots of cpus 0 and 1 and has not
\* switched their broadcast timers on yet
C16_Witness ==
    \E t \in Threads :
        /\ pc[t] = "bctimer"
        /\ loc[t].drv = "A"
        /\ drvs["A"].bctimer
        /\ cpuidle_get_cpu_driver([cpu |-> 0]) = "A"
        /\ ~bc_timer[0]

\* C17: while register scans its mask, cpuidle_get_cpu_driver returns the
\* new driver for a cpu that did not have it before the call only if the
\* rest of the scan finds every cpu free, that is only if the call is not
\* going to return -EBUSY.
C17_TwoPhaseClaim ==
    \A t \in Threads : \A c \in CPUs :
        (/\ pc[t] = "set_driver"
         /\ cpuidle_get_cpu_driver([cpu |-> c]) = loc[t].drv
         /\ loc[t].pre.slots[c] # loc[t].drv) =>
            set_driver_from(cpuidle_drivers, loc[t].drv,
                            drvs[loc[t].drv].cpumask, loc[t].cpu).ret = "OK"

\* an unregister of d has passed the refcount check and has not returned
Unregistering(d) ==
    \E t \in Threads :
        loc[t].op = "unregister" /\ loc[t].drv = d /\ loc[t].ret # "WARN"

C19_UnregisterFrame ==
    \A t \in Threads :
        loc[t].op = "unregister" =>
            LET d == loc[t].drv
                p == loc[t].pre
            IN  /\ \A c \in CPUs :
                       \/ cpuidle_drivers[c] = p.slots[c]
                       \/ p.slots[c] = d /\ cpuidle_drivers[c] = NULL
                /\ ~Holds(p.slots, d) => cpuidle_drivers = p.slots
                /\ \A e \in Drivers : drvs[e].refcnt = p.drvs[e].refcnt

\* unregister(B) has gone through although B had no cpu; cpu 1, which is in
\* B's mask, had and has A, on which a reference is held
C19_Witness ==
    \E t \in Threads :
        /\ UnregisterReturns(t)
        /\ loc[t].ret = "OK"
        /\ loc[t].drv = "B"
        /\ ~Holds(loc[t].pre.slots, "B")
        /\ loc[t].pre.slots[1] = "A"
        /\ cpuidle_drivers[1] = "A"
        /\ drvs["A"].refcnt = 1

\* C20: after any sequence of register, unregister, cpuidle_driver_ref and
\* cpuidle_driver_unref calls made alike on the build with one slot and on
\* the build with per-cpu slots whose drivers all have every cpu in their
\* mask, the last call returned the same in both, every cpu has the driver
\* the one slot has, and the driver objects (refcnt, bctimer) and the
\* broadcast timers are the same.
C20_BuildsAgree ==
    /\ rets.multiple = rets.single
    /\ \A c \in CPUs : cpuidle_drivers[c] = cpuidle_curr_driver
    /\ drvs = curr_drvs
    /\ bc_timer = curr_bc_timer

====
